---- MODULE Spec2Model ----
(***************************************************************************)
(* Tong front end: the lexer (src/src/lexer.rs), the recursive-descent     *)
(* parser (src/src/parser.rs) and the driver loop of main                  *)
(* (src/src/main.rs), as a state machine over one source buffer.           *)
(*                                                                         *)
(* Characters are one-character strings, a buffer is a sequence of them.   *)
(* Cursor positions are 0-based as in the source: Ch(chars, pos) is        *)
(* chars[pos].                                                             *)
(***************************************************************************)
EXTENDS Integers, Sequences, FiniteSets, TLC

VARIABLES file_buffer, pos, line_number, tokens, lex_failed, last_lex,
          parser, results, pc

vars == <<file_buffer, pos, line_number, tokens, lex_failed, last_lex,
          parser, results, pc>>

(***************************************************************************)
(* Bounds of the explored inputs.                                          *)
(***************************************************************************)
MaxBufLen == 3
MaxStrLen == 4
MaxOps == 3
MaxTail == 3
MaxStmts == 1
MaxElifs == 1
MaxLet == 4

(***************************************************************************)
(* Character classes (char::is_whitespace, is_ascii_digit,                 *)
(* is_ascii_alphabetic).                                                   *)
(***************************************************************************)
Whitespace == {" ", "\n", "\t", "\r", "\f"}

DigitSeq == <<"0", "1", "2", "3", "4", "5", "6", "7", "8", "9">>

Digits == {DigitSeq[i] : i \in 1..Len(DigitSeq)}

Alpha ==
  {"a", "b", "c", "d", "e", "f", "g", "h", "i", "j", "k", "l", "m", "n", "o",
   "p", "q", "r", "s", "t", "u", "v", "w", "x", "y", "z",
   "A", "B", "C", "D", "E", "F", "G", "H", "I", "J", "K", "L", "M", "N", "O",
   "P", "Q", "R", "S", "T", "U", "V", "W", "X", "Y", "Z"}

Ch(chars, p) == chars[p + 1]

(***************************************************************************)
(* Token { ttype, value } of lexer.rs, with the line_num field the parser  *)
(* reads.  lexer.rs as given carries no line counter; main.rs passes one   *)
(* (line_number) to lex, and its update follows section 4.1 step 2.        *)
(***************************************************************************)
Token(ttype, value, line) == [ttype |-> ttype, value |-> value, line_num |-> line]

None == [some |-> FALSE]

Some(x) == [some |-> TRUE, val |-> x]

bump_line(c, line) == IF c = "\n" THEN line + 1 ELSE line

LexRet(tok, p, line) == [tok |-> tok, pos |-> p, line |-> line]

(* lexer.rs 197-218: the keyword table *)
keyword_type(val) ==
  CASE val = <<"l", "o", "o", "p">> -> "Loop"
    [] val = <<"i", "f">> -> "If"
    [] val = <<"e", "l", "i", "f">> -> "Elif"
    [] val = <<"e", "l", "s", "e">> -> "Else"
    [] val = <<"t", "r", "u", "e">> -> "True"
    [] val = <<"f", "a", "l", "s", "e">> -> "False"
    [] val = <<"b", "r", "e", "a", "k">> -> "Break"
    [] val = <<"r", "e", "t", "u", "r", "n">> -> "Return"
    [] val = <<"f", "n">> -> "Func"
    [] val = <<"a", "n", "d">> -> "And"
    [] val = <<"o", "r">> -> "Or"
    [] val = <<"l", "e", "t">> -> "Let"
    [] val = <<"i", "8">> -> "Ii8"
    [] val = <<"i", "1", "6">> -> "Ii16"
    [] val = <<"i", "3", "2">> -> "Ii32"
    [] val = <<"i", "6", "4">> -> "Ii64"
    [] val = <<"f", "3", "2">> -> "Fi32"
    [] val = <<"c", "o", "n", "s", "t">> -> "Const"
    [] val = <<"t", "e", "n", "s", "o", "r">> -> "Tensor"
    [] OTHER -> "Iden"

(* lexer.rs 57-108: the one-character tokens *)
SingleType ==
  [c \in {"+", "-", "*", "/", "%", "(", ")", "{", "}", "[", "]", ",", ";"} |->
     CASE c = "+" -> "Add" [] c = "-" -> "Sub" [] c = "*" -> "Mul"
       [] c = "/" -> "Div" [] c = "%" -> "Mod" [] c = "(" -> "Opt"
       [] c = ")" -> "Cpt" [] c = "{" -> "Ocl" [] c = "}" -> "Ccl"
       [] c = "[" -> "Osq" [] c = "]" -> "Csq" [] c = "," -> "Com"
       [] c = ";" -> "Scln"]

(* lexer.rs 141-167: `=`, `<`, `>` with one character of lookahead *)
DoubleType == [c \in {"=", "<", ">"} |->
     CASE c = "=" -> "Eqv" [] c = "<" -> "Leq" [] c = ">" -> "Geq"]

ShortType == [c \in {"=", "<", ">"} |->
     CASE c = "=" -> "Equ" [] c = "<" -> "Les" [] c = ">" -> "Gre"]

(* a comment that runs to the end of the buffer *)
skip_comment_to_end(chars, p) == Len(chars)

(* lexer.rs 45-47: a comment runs up to, not including, the newline *)
RECURSIVE skip_comment(_, _)
skip_comment(chars, p) ==
  IF p < Len(chars) /\ Ch(chars, p) # "\n"
    THEN skip_comment(chars, p + 1)
    ELSE p

(* lexer.rs 109-140: the string literal scan, entered after the opening quote *)
RECURSIVE lex_string(_, _, _, _)
lex_string(chars, p, literal, line) ==
  IF p < Len(chars) /\ Ch(chars, p) # "\""
    THEN IF Ch(chars, p) = "\\"
           THEN IF p + 1 >= Len(chars)
                  THEN LexRet(None, p + 1, line)
                  ELSE CASE Ch(chars, p + 1) = "\"" ->
                              lex_string(chars, p + 2, Append(literal, "\""), line)
                         [] Ch(chars, p + 1) = "n" ->
                              lex_string(chars, p + 2, Append(literal, "\n"), line)
                         [] Ch(chars, p + 1) = "\\" ->
                              lex_string(chars, p + 2, Append(literal, "\\"), line)
                         [] OTHER -> LexRet(None, p + 1, line)
           ELSE lex_string(chars, p + 1, Append(literal, Ch(chars, p)), line)
    ELSE LexRet(Some(Token("Str", literal, line)), p + 1, line)

(* the number scan taking every `.` of the run into the token *)
RECURSIVE lex_number_lenient(_, _, _, _, _)
lex_number_lenient(chars, p, val, float, line) ==
  IF p < Len(chars) /\ (Ch(chars, p) \in Digits \/ Ch(chars, p) = ".")
    THEN lex_number_lenient(chars, p + 1, Append(val, Ch(chars, p)), float, line)
    ELSE LexRet(Some(Token("Num", val, line)), p, line)

(* lexer.rs 175-188: a run of digits and dots *)
RECURSIVE lex_number(_, _, _, _, _)
lex_number(chars, p, val, float, line) ==
  IF p < Len(chars) /\ (Ch(chars, p) \in Digits \/ Ch(chars, p) = ".")
    THEN IF Ch(chars, p) = "." /\ float
           THEN LexRet(None, p, line)
           ELSE lex_number(chars, p + 1, Append(val, Ch(chars, p)),
                           float \/ Ch(chars, p) = ".", line)
    ELSE LexRet(Some(Token("Num", val, line)), p, line)

(* lexer.rs 189-219: an identifier or keyword *)
RECURSIVE lex_word(_, _, _, _)
lex_word(chars, p, val, line) ==
  IF p < Len(chars) /\ (Ch(chars, p) \in Alpha \cup Digits \/ Ch(chars, p) = "_")
    THEN lex_word(chars, p + 1, Append(val, Ch(chars, p)), line)
    ELSE LexRet(Some(Token(keyword_type(val), val, line)), p, line)

(* lexer.rs 40-229: pub fn lex *)
RECURSIVE lex(_, _, _)
lex(chars, p, line) ==
  IF p < Len(chars)
    THEN LET c == Ch(chars, p) IN
         CASE c = "#" -> lex(chars, skip_comment(chars, p), line)
           [] c \in Whitespace -> lex(chars, p + 1, bump_line(c, line))
           [] c \in DOMAIN SingleType ->
                LexRet(Some(Token(SingleType[c], <<c>>, line)), p + 1, line)
           [] c = "\"" -> lex_string(chars, p + 1, <<>>, line)
           [] c \in DOMAIN DoubleType ->
                IF p + 1 < Len(chars) /\ Ch(chars, p + 1) = "="
                  THEN LexRet(Some(Token(DoubleType[c], <<c, "=">>, line)), p + 2, line)
                  ELSE LexRet(Some(Token(ShortType[c], <<c>>, line)), p + 1, line)
           [] c \in Digits -> lex_number(chars, p, <<>>, FALSE, line)
           [] c \in Alpha \/ c = "_" -> lex_word(chars, p + 1, <<c>>, line)
           [] OTHER -> lex(chars, p + 1, line)
    ELSE LexRet(Some(Token("Eof", <<>>, line)), p, line)

(***************************************************************************)
(* parser.rs 4-9: ParserError.  The text of a failure is either a fixed    *)
(* message of the source or the text of a token.                           *)
(***************************************************************************)
Msg(m) == [msg |-> m]

TokText(value) == [tok |-> value]

UnexpectedToken(text, line) == [kind |-> "UnexpectedToken", text |-> text, line |-> line]

UnterminatedBlock(line) == [kind |-> "UnterminatedBlock", line |-> line]

ExpectedSemicolon(line) == [kind |-> "ExpectedSemicolon", line |-> line]

ExpectedToken(text, line) == [kind |-> "ExpectedToken", text |-> text, line |-> line]

(***************************************************************************)
(* parser.rs 12-69: ASTNode.                                               *)
(***************************************************************************)
EofNode == [node |-> "Eof"]

Number(n) == [node |-> "Number", n |-> n]

Identifier(name) == [node |-> "Identifier", name |-> name]

ImportNode(name) == [node |-> "ImportNode", name |-> name]

StrLiteral(s) == [node |-> "StrLiteral", s |-> s]

BreakNode == [node |-> "BreakNode"]

BoolNode(b) == [node |-> "BoolNode", b |-> b]

ReturnNode(value) == [node |-> "ReturnNode", value |-> value]

BinOpNode(op, left, right) == [node |-> "BinOpNode", op |-> op, left |-> left, right |-> right]

VarDecNode(name, value) == [node |-> "VarDecNode", name |-> name, value |-> value]

AssignNode(name, value) == [node |-> "AssignNode", name |-> name, value |-> value]

IfElseNode(condition, then_branch, elif_branch, else_branch) ==
  [node |-> "IfElseNode", condition |-> condition, then_branch |-> then_branch,
   elif_branch |-> elif_branch, else_branch |-> else_branch]

LoopNode(condition, block) == [node |-> "LoopNode", condition |-> condition, block |-> block]

FuncCall(name, arguments) == [node |-> "FuncCall", name |-> name, arguments |-> arguments]

FuncDef(name, arguments, block) ==
  [node |-> "FuncDef", name |-> name, arguments |-> arguments, block |-> block]

(***************************************************************************)
(* str::parse::<f64>().unwrap_or_default() of parser.rs 107 on the text of *)
(* a number token: the value is kept as its integer part and its fraction  *)
(* digits without trailing zeros, so "1", "1." and "1.0" are one number.   *)
(***************************************************************************)
DigitVal(c) == (CHOOSE i \in 1..Len(DigitSeq) : DigitSeq[i] = c) - 1

RECURSIVE DigitsValue(_, _)
DigitsValue(ds, acc) ==
  IF ds = <<>> THEN acc ELSE DigitsValue(Tail(ds), acc * 10 + DigitVal(Head(ds)))

RECURSIVE StripZeros(_)
StripZeros(ds) ==
  IF ds # <<>> /\ ds[Len(ds)] = "0" THEN StripZeros(SubSeq(ds, 1, Len(ds) - 1)) ELSE ds

parse_f64(value) ==
  IF value = <<>> \/ \E i \in 1..Len(value) : value[i] \notin Digits \cup {"."}
    THEN [int |-> 0, frac |-> <<>>]
    ELSE LET dots == {i \in 1..Len(value) : value[i] = "."} IN
         IF dots = {}
           THEN [int |-> DigitsValue(value, 0), frac |-> <<>>]
           ELSE LET d == CHOOSE i \in dots : \A j \in dots : i <= j IN
                IF Cardinality(dots) > 1 \/ Len(value) = 1
                  THEN [int |-> 0, frac |-> <<>>]
                  ELSE [int |-> DigitsValue(SubSeq(value, 1, d - 1), 0),
                        frac |-> StripZeros(SubSeq(value, d + 1, Len(value)))]

(***************************************************************************)
(* parser.rs 71-100: Parser { tokens, pos } and its cursor primitives.     *)
(* The record also keeps the history of the cursor calls: high, the        *)
(* highest index reached; last, the last call made; pukes, the number of   *)
(* calls of puke; kept, whether every puke so far came after a consume,    *)
(* at an index above 0 and not below high.                                 *)
(* A parse method returns the parser it leaves behind and its result:      *)
(* Ok(value), Err(ParserError), or Diverge when the method never returns.  *)
(***************************************************************************)
Parser_new(toks) ==
  [tokens |-> toks, pos |-> 0,
   high |-> 0, last |-> "new", pukes |-> 0, kept |-> TRUE]

consume(self) ==
  IF self.pos <= Len(self.tokens)
    THEN [self EXCEPT !.pos = @ + 1, !.last = "consume",
                      !.high = IF self.pos + 1 > @ THEN self.pos + 1 ELSE @]
    ELSE [self EXCEPT !.last = "consume"]

(* `self.pos - 1 >= 0` holds of every usize; at pos = 0 the subtraction     *)
(* leaves the range of the token indices (-1 stands for that cursor).      *)
puke(self) ==
  [self EXCEPT !.pos = @ - 1, !.last = "puke", !.pukes = @ + 1,
               !.kept = @ /\ self.last # "puke" /\ self.pos > 0
                          /\ self.pos >= self.high]

HasCur(self) == self.pos >= 0 /\ self.pos < Len(self.tokens)

Cur(self) == self.tokens[self.pos + 1]

Ok(v) == [ok |-> "Ok", node |-> v]

Err(e) == [ok |-> "Err", err |-> e]

Diverge == [ok |-> "Diverge"]

Ret(self, res) == [self |-> self, res |-> res]

Fails(r) == r.res.ok # "Ok"

EndOfInput == Err(UnexpectedToken(Msg("Unexpected end of input"), 0))

current(self) == IF HasCur(self) THEN Ok(Cur(self)) ELSE EndOfInput

(* The `?` of Rust: a failure (or a call that never returns) of the        *)
(* sub-parse r ends the calling method with it; otherwise K goes on.       *)
Try(r, K(_)) == IF r.res.ok = "Ok" THEN K(r) ELSE r

(* `let r = ...;` followed by K(r) *)
Let(r, K(_)) == K(r)

RECURSIVE parse_factor(_), parse_term(_), parse_term_loop(_, _),
          parse_arith_expr(_), parse_arith_loop(_, _),
          parse_comp_expr(_), parse_comp_loop(_, _),
          parse_logic_expr(_), parse_logic_loop(_, _),
          parse_expr(_, _), parse_statement(_), parse_block(_),
          block_loop(_, _, _, _, _), parse_func_call(_),
          parse_args_call(_), args_call_loop(_, _),
          parse_func_def(_), parse_ifelse(_), elif_loop(_, _, _, _),
          parse_loop(_), parse_var_def(_), parse_assign(_), parse_import(_),
          parse_args_def(_), args_def_loop(_, _)

(* parser.rs 142-152: `(` expr `)` in parse_factor, after the sub-parse *)
factor_close(r) ==
  IF ~HasCur(r.self) THEN Ret(r.self, EndOfInput)
  ELSE IF Cur(r.self).ttype # "Cpt"
    THEN Ret(r.self, Err(ExpectedToken(Msg("closing parenthesis"), Cur(r.self).line_num)))
    ELSE Ret(consume(r.self), r.res)

(* the identifier branch of parse_factor pushing back twice before it      *)
(* takes the name                                                          *)
factor_iden_repuke(s1) ==
  IF ~HasCur(s1) THEN Ret(s1, EndOfInput)
  ELSE IF Cur(s1).ttype = "Opt" THEN parse_func_call(puke(s1))
  ELSE Let(consume(puke(puke(s1))), LAMBDA s2 :
         IF ~HasCur(s2) THEN Ret(s2, EndOfInput)
         ELSE Ret(consume(s2), Ok(Identifier(Cur(s2).value))))

(* parser.rs 112-124: an identifier in parse_factor, after consume *)
factor_iden(s1) ==
  IF ~HasCur(s1) THEN Ret(s1, EndOfInput)
  ELSE IF Cur(s1).ttype = "Opt" THEN parse_func_call(puke(s1))
  ELSE Let(puke(s1), LAMBDA s2 :
         IF ~HasCur(s2) THEN Ret(s2, EndOfInput)
         ELSE Ret(consume(s2), Ok(Identifier(Cur(s2).value))))

(* parser.rs 102-159 *)
parse_factor(self) ==
  IF ~HasCur(self) THEN Ret(self, EndOfInput)
  ELSE Let(Cur(self), LAMBDA token :
    CASE token.ttype = "Num" ->
           Ret(consume(self), Ok(Number(parse_f64(token.value))))
      [] token.ttype = "Iden" -> factor_iden(consume(self))
      [] token.ttype = "Str" -> Ret(consume(self), Ok(StrLiteral(token.value)))
      [] token.ttype = "True" -> Ret(consume(self), Ok(BoolNode(TRUE)))
      [] token.ttype = "False" -> Ret(consume(self), Ok(BoolNode(FALSE)))
      [] token.ttype = "Opt" ->
           Try(parse_expr(consume(self), FALSE), LAMBDA r : factor_close(r))
      [] OTHER -> Ret(self, Err(UnexpectedToken(TokText(token.value), token.line_num))))

(* parse_term's loop taking `+` and `-` as well: one level for the four    *)
(* arithmetic operators                                                    *)
parse_term_loop_flat(self, node) ==
  IF ~HasCur(self) THEN Ret(self, Ok(node))
  ELSE IF Cur(self).ttype \in {"Mul", "Div", "Mod", "Add", "Sub"}
    THEN Try(parse_factor(consume(self)), LAMBDA r :
           parse_term_loop(r.self, BinOpNode(Cur(self).value, node, r.res.node)))
    ELSE Ret(self, Ok(node))

(* parser.rs 164-183: the loop of parse_term *)
parse_term_loop(self, node) ==
  IF ~HasCur(self) THEN Ret(self, Ok(node))
  ELSE IF Cur(self).ttype \in {"Mul", "Div", "Mod"}
    THEN Try(parse_factor(consume(self)), LAMBDA r :
           parse_term_loop(r.self, BinOpNode(Cur(self).value, node, r.res.node)))
    ELSE Ret(self, Ok(node))

(* parser.rs 161-184 *)
parse_term(self) ==
  Try(parse_factor(self), LAMBDA r : parse_term_loop(r.self, r.res.node))

(* parse_arith_expr's loop with the rest of the chain as right operand     *)
parse_arith_loop_right(self, node) ==
  IF ~HasCur(self) THEN Ret(self, Ok(node))
  ELSE IF Cur(self).ttype \in {"Add", "Sub"}
    THEN Try(parse_arith_expr(consume(self)), LAMBDA r :
           Ret(r.self, Ok(BinOpNode(Cur(self).value, node, r.res.node))))
    ELSE Ret(self, Ok(node))

(* parser.rs 189-208: the loop of parse_arith_expr *)
parse_arith_loop(self, node) ==
  IF ~HasCur(self) THEN Ret(self, Ok(node))
  ELSE IF Cur(self).ttype \in {"Add", "Sub"}
    THEN Try(parse_term(consume(self)), LAMBDA r :
           parse_arith_loop(r.self, BinOpNode(Cur(self).value, node, r.res.node)))
    ELSE Ret(self, Ok(node))

(* parser.rs 186-209 *)
parse_arith_expr(self) ==
  Try(parse_term(self), LAMBDA r : parse_arith_loop(r.self, r.res.node))

(* parser.rs 214-233: the loop of parse_comp_expr *)
parse_comp_loop(self, node) ==
  IF ~HasCur(self) THEN Ret(self, Ok(node))
  ELSE IF Cur(self).ttype \in {"Geq", "Leq", "Gre", "Les", "Eqv"}
    THEN Try(parse_arith_expr(consume(self)), LAMBDA r :
           parse_comp_loop(r.self, BinOpNode(Cur(self).value, node, r.res.node)))
    ELSE Ret(self, Ok(node))

(* parser.rs 211-234 *)
parse_comp_expr(self) ==
  Try(parse_arith_expr(self), LAMBDA r : parse_comp_loop(r.self, r.res.node))

(* parser.rs 239-258: the loop of parse_logic_expr *)
parse_logic_loop(self, node) ==
  IF ~HasCur(self) THEN Ret(self, Ok(node))
  ELSE IF Cur(self).ttype \in {"And", "Or"}
    THEN Try(parse_comp_expr(consume(self)), LAMBDA r :
           parse_logic_loop(r.self, BinOpNode(Cur(self).value, node, r.res.node)))
    ELSE Ret(self, Ok(node))

(* parser.rs 236-259 *)
parse_logic_expr(self) ==
  Try(parse_comp_expr(self), LAMBDA r : parse_logic_loop(r.self, r.res.node))

(* parser.rs 267-274: the terminator of parse_expr *)
expr_terminate(r, terminate) ==
  IF ~terminate THEN r
  ELSE IF ~HasCur(r.self) THEN Ret(r.self, EndOfInput)
  ELSE IF Cur(r.self).ttype # "Scln"
    THEN Ret(r.self, Err(ExpectedSemicolon(Cur(r.self).line_num)))
    ELSE Ret(consume(r.self), r.res)

(* parser.rs 261-282 *)
parse_expr(self, terminate) ==
  IF ~HasCur(self) THEN Ret(self, EndOfInput)
  ELSE IF Cur(self).ttype \in {"Iden", "Num", "Str", "True", "False"}
    THEN Try(parse_logic_expr(self), LAMBDA r : expr_terminate(r, terminate))
    ELSE Ret(self, Err(UnexpectedToken(Msg("Invalid start of expression"),
                                       Cur(self).line_num)))

(* parser.rs 352-364 *)
parse_import(self) ==
  Let(consume(self), LAMBDA s1 :
    IF ~HasCur(s1) THEN Ret(s1, EndOfInput)
    ELSE IF Cur(s1).ttype # "Str"
      THEN Ret(s1, Err(UnexpectedToken(Msg("Invalid module string"), Cur(s1).line_num)))
      ELSE Ret(consume(s1), Ok(ImportNode(Cur(s1).value))))

(* parser.rs 385-397: the loop of parse_block.  thetype, theval and thenum  *)
(* are read once, before the loop.  An iteration whose parse_statement     *)
(* returns Ok and leaves the cursor where it was repeats itself for ever.  *)
block_loop(self, statements, thetype, theval, thenum) ==
  IF thetype = "Ccl" THEN Ret(self, Ok(statements))
  ELSE Let(parse_statement(self), LAMBDA r :
         CASE r.res.ok = "Ok" ->
                IF r.self = self
                  THEN Ret(self, Diverge)
                  ELSE block_loop(r.self, Append(statements, r.res.node),
                                  thetype, theval, thenum)
           [] r.res.ok = "Err" ->
                Ret(r.self, Err(UnexpectedToken(TokText(theval), thenum)))
           [] OTHER -> r)

(* parser.rs 399-411: the end of parse_block, after the loop *)
block_close(r) ==
  IF ~HasCur(r.self) THEN Ret(r.self, EndOfInput)
  ELSE IF Cur(r.self).ttype # "Ccl"
    THEN Ret(r.self, Err(UnterminatedBlock(Cur(r.self).line_num)))
    ELSE Ret(consume(r.self), r.res)

(* parser.rs 366-412 *)
parse_block(self) ==
  IF ~HasCur(self) THEN Ret(self, EndOfInput)
  ELSE IF Cur(self).ttype # "Ocl"
    THEN Ret(self, Err(ExpectedToken(Msg("{"), Cur(self).line_num)))
    ELSE Let(consume(self), LAMBDA s1 :
           IF ~HasCur(s1) THEN Ret(s1, EndOfInput)
           ELSE Try(block_loop(s1, <<>>, Cur(s1).ttype, Cur(s1).value, Cur(s1).line_num),
                    LAMBDA r : block_close(r)))

(* parser.rs 414-428 *)
parse_var_def(self) ==
  Let(consume(self), LAMBDA s1 :
    IF ~HasCur(s1) THEN Ret(s1, EndOfInput)
    ELSE Try(parse_expr(consume(consume(s1)), TRUE), LAMBDA r :
           Ret(r.self, Ok(VarDecNode(Cur(s1).value, r.res.node)))))

(* parser.rs 484-504: parse_args_def after one argument was taken *)
args_def_sep(s1, args) ==
  IF ~HasCur(s1)
    THEN Ret(s1, Err(UnexpectedToken(Msg("Error parsing function arguments"), 0)))
  ELSE CASE Cur(s1).ttype = "Com" -> args_def_loop(consume(s1), args)
         [] Cur(s1).ttype = "Cpt" -> Ret(consume(s1), Ok(Some(args)))
         [] OTHER ->
              Ret(s1, Err(UnexpectedToken(Msg("Error parsing function arguments"),
                                          Cur(s1).line_num)))

(* parser.rs 473-506: the loop of parse_args_def *)
args_def_loop(self, arguments) ==
  IF ~HasCur(self)
    THEN Ret(self, Err(UnexpectedToken(Msg("Error parsing function arguments"), 0)))
  ELSE IF Cur(self).ttype = "Cpt" THEN Ret(consume(self), Ok(Some(arguments)))
  ELSE args_def_sep(consume(self), Append(arguments, Identifier(Cur(self).value)))

(* parser.rs 463-507 *)
parse_args_def(self) ==
  Let(consume(self), LAMBDA s1 :
    IF ~HasCur(s1) THEN Ret(s1, EndOfInput)
    ELSE IF Cur(s1).ttype = "Cpt" THEN Ret(consume(s1), Ok(None))
    ELSE args_def_loop(s1, <<>>))

(* parser.rs 437-446: parse_func_def after its block *)
func_def_block(rb, name, arguments) ==
  CASE rb.res.ok = "Ok" -> Ret(rb.self, Ok(FuncDef(name, arguments, rb.res.node)))
    [] rb.res.ok = "Err" ->
         IF ~HasCur(rb.self) THEN Ret(rb.self, EndOfInput)
         ELSE Ret(rb.self,
                  Err(UnexpectedToken(Msg("Error parsing function definition"),
                                      Cur(rb.self).line_num)))
    [] OTHER -> rb

(* parser.rs 430-447 *)
parse_func_def(self) ==
  Let(consume(self), LAMBDA s1 :
    IF ~HasCur(s1) THEN Ret(s1, EndOfInput)
    ELSE Try(parse_args_def(consume(s1)), LAMBDA ra :
           func_def_block(parse_block(ra.self), Cur(s1).value,
                          IF ra.res.node.some THEN ra.res.node.val ELSE <<>>)))

(* parser.rs 523-535: parse_args_call after one argument was parsed *)
args_call_sep(r, arguments) ==
  IF ~HasCur(r.self) THEN Ret(r.self, EndOfInput)
  ELSE CASE Cur(r.self).ttype = "Com" ->
              args_call_loop(consume(r.self), Append(arguments, r.res.node))
         [] Cur(r.self).ttype = "Cpt" ->
              Ret(consume(r.self), Ok(Append(arguments, r.res.node)))
         [] OTHER ->
              Ret(r.self,
                  Err(UnexpectedToken(Msg("Error parsing function call arguments"),
                                      Cur(r.self).line_num)))

(* parser.rs 514-536: the loop of parse_args_call *)
args_call_loop(self, arguments) ==
  IF ~HasCur(self) THEN Ret(self, EndOfInput)
  ELSE IF Cur(self).ttype = "Cpt" THEN Ret(consume(self), Ok(arguments))
  ELSE Try(parse_expr(self, FALSE), LAMBDA r : args_call_sep(r, arguments))

(* parser.rs 509-538 *)
parse_args_call(self) == args_call_loop(consume(self), <<>>)

(* parser.rs 449-461 *)
parse_func_call(self) ==
  IF ~HasCur(self) THEN Ret(self, EndOfInput)
  ELSE Try(parse_args_call(consume(self)), LAMBDA r :
         Ret(r.self, Ok(FuncCall(Cur(self).value, r.res.node))))

(* parser.rs 543-557 and 582-593, 600-611: `(` expr `)` block, the shape   *)
(* shared by loop, if and elif; K receives the condition and the block     *)
cond_block(s1, K(_, _)) ==
  IF ~HasCur(s1) THEN Ret(s1, EndOfInput)
  ELSE IF Cur(s1).ttype # "Opt"
    THEN Ret(s1, Err(ExpectedToken(Msg("("), Cur(s1).line_num)))
    ELSE Try(parse_expr(consume(s1), FALSE), LAMBDA rc :
           IF ~HasCur(rc.self) THEN Ret(rc.self, EndOfInput)
           ELSE IF Cur(rc.self).ttype # "Cpt"
             THEN Ret(rc.self, Err(ExpectedToken(Msg(")"), Cur(rc.self).line_num)))
             ELSE Try(parse_block(consume(rc.self)), LAMBDA rb : K(rc, rb)))

(* parser.rs 540-566 *)
parse_loop(self) ==
  cond_block(consume(self), LAMBDA rc, rb :
    Ret(rb.self, Ok(LoopNode(rc.res.node, rb.res.node))))

(* parser.rs 616-631: the optional else clause and the node of parse_ifelse *)
ifelse_end(self, ifcondition, then_branch, elif_branches) ==
  IF ~HasCur(self) THEN Ret(self, EndOfInput)
  ELSE IF Cur(self).ttype = "Else"
    THEN Try(parse_block(consume(self)), LAMBDA rb :
           Ret(rb.self, Ok(IfElseNode(ifcondition, then_branch, elif_branches,
                                      Some(rb.res.node)))))
    ELSE Ret(self, Ok(IfElseNode(ifcondition, then_branch, elif_branches, None)))

(* parser.rs 596-614: the elif loop of parse_ifelse *)
elif_loop(self, ifcondition, then_branch, elif_branches) ==
  IF ~HasCur(self) THEN Ret(self, EndOfInput)
  ELSE IF Cur(self).ttype # "Elif"
    THEN ifelse_end(self, ifcondition, then_branch, elif_branches)
    ELSE cond_block(consume(self), LAMBDA rc, rb :
           elif_loop(rb.self, ifcondition, then_branch,
                     Append(elif_branches, <<rc.res.node, rb.res.node>>)))

(* parser.rs 579-633 *)
parse_ifelse(self) ==
  cond_block(consume(self), LAMBDA rc, rb :
    elif_loop(rb.self, rc.res.node, rb.res.node, <<>>))

(* parser.rs 635-648 *)
parse_assign(self) ==
  IF ~HasCur(self) THEN Ret(self, EndOfInput)
  ELSE Try(parse_expr(consume(consume(self)), TRUE), LAMBDA r :
         Ret(r.self, Ok(AssignNode(Cur(self).value, r.res.node))))

(* parser.rs 293-303: `break` `;` *)
statement_break(s1) ==
  IF ~HasCur(s1) THEN Ret(s1, EndOfInput)
  ELSE IF Cur(s1).ttype # "Scln"
    THEN Ret(s1, Err(ExpectedSemicolon(Cur(s1).line_num)))
    ELSE Ret(consume(s1), Ok(BreakNode))

(* parser.rs 307-320: `return` after parse_expr(true) has returned r *)
return_value(r) ==
  CASE r.res.ok = "Ok" -> Ret(r.self, Ok(ReturnNode(Some(r.res.node))))
    [] r.res.ok = "Err" ->
         IF ~HasCur(r.self) THEN Ret(r.self, EndOfInput)
         ELSE IF Cur(r.self).ttype # "Scln"
           THEN Ret(r.self, Err(ExpectedSemicolon(Cur(r.self).line_num)))
           ELSE Ret(consume(r.self), Ok(ReturnNode(None)))
    [] OTHER -> r

(* parser.rs 305-321: `return` [expr] `;` *)
statement_return(self) == return_value(parse_expr(consume(self), TRUE))

(* parser.rs 328-336: a call statement after parse_func_call has returned   *)
(* node; the `;` is looked for whether or not node is a failure            *)
call_statement(node) ==
  IF node.res.ok = "Diverge" THEN node
  ELSE IF ~HasCur(node.self) THEN Ret(node.self, EndOfInput)
  ELSE IF Cur(node.self).ttype # "Scln"
    THEN Ret(node.self, Err(ExpectedSemicolon(Cur(node.self).line_num)))
    ELSE Ret(consume(node.self), node.res)

(* a leading identifier not followed by `(` or `=` taken as the start of   *)
(* an expression statement                                                 *)
statement_iden_expr(s1) ==
  IF ~HasCur(s1) THEN Ret(s1, EndOfInput)
  ELSE CASE Cur(s1).ttype = "Opt" -> call_statement(parse_func_call(puke(s1)))
         [] Cur(s1).ttype = "Equ" -> parse_assign(puke(s1))
         [] OTHER -> parse_expr(puke(s1), TRUE)

(* parser.rs 323-346: a statement that starts with an identifier, after    *)
(* consume                                                                 *)
statement_iden(s1) ==
  IF ~HasCur(s1) THEN Ret(s1, EndOfInput)
  ELSE CASE Cur(s1).ttype = "Opt" -> call_statement(parse_func_call(puke(s1)))
         [] Cur(s1).ttype = "Equ" -> parse_assign(puke(s1))
         [] OTHER ->
              Ret(s1, Err(UnexpectedToken(TokText(Cur(s1).value), Cur(s1).line_num)))

(* parser.rs 284-350 *)
parse_statement(self) ==
  IF ~HasCur(self) THEN Ret(self, EndOfInput)
  ELSE CASE Cur(self).ttype = "Eof" -> Ret(self, Ok(EofNode))
         [] Cur(self).ttype = "Import" -> parse_import(self)
         [] Cur(self).ttype = "Let" -> parse_var_def(self)
         [] Cur(self).ttype = "Func" -> parse_func_def(self)
         [] Cur(self).ttype = "If" -> parse_ifelse(self)
         [] Cur(self).ttype = "Loop" -> parse_loop(self)
         [] Cur(self).ttype = "Break" -> statement_break(consume(self))
         [] Cur(self).ttype = "Return" -> statement_return(self)
         [] Cur(self).ttype = "Iden" -> statement_iden(consume(self))
         [] OTHER -> parse_expr(self, TRUE)

(* parser.rs 650-655 *)
is_at_end(self) == IF HasCur(self) THEN Cur(self).ttype = "Eof" ELSE TRUE

(***************************************************************************)
(* The source buffers explored.  Lexemes are spelled out and joined with   *)
(* one blank; the raw buffers are all short texts over a few characters.   *)
(***************************************************************************)
SeqsUpTo(S, n) == UNION {[1..k -> S] : k \in 0..n}

RECURSIVE Spell(_)
Spell(ls) ==
  IF ls = <<>> THEN <<>>
  ELSE IF Len(ls) = 1 THEN Head(ls)
  ELSE Head(ls) \o <<" ">> \o Spell(Tail(ls))

RECURSIVE Rep(_, _)
Rep(ls, n) == IF n = 0 THEN <<>> ELSE ls \o Rep(ls, n - 1)

RECURSIVE Flatten(_)
Flatten(ss) == IF ss = <<>> THEN <<>> ELSE Head(ss) \o Flatten(Tail(ss))

RawChars == {"1", "a", "@", "#", "\n", ";", "=", "."}

RawBuffers == SeqsUpTo(RawChars, MaxBufLen)

StrChars == {"\"", "\\", "n", "a"}

StrBuffers == {<<"\"">> \o b : b \in SeqsUpTo(StrChars, MaxStrLen)}

OpLexemes ==
  {<<"*">>, <<"%">>, <<"+">>, <<"-">>, <<"=", "=">>, <<"<", "=">>,
   <<"a", "n", "d">>, <<"o", "r">>}

ExprLexemes(ops) ==
  <<<<"1">>>> \o
  Flatten([i \in 1..Len(ops) |-> <<ops[i], <<DigitSeq[i + 2]>>>>]) \o
  <<<<";">>>>

ExprPrograms == {Spell(ExprLexemes(ops)) : ops \in SeqsUpTo(OpLexemes, MaxOps)}

HeadLexemes == {<<"f">>, <<"r", "e", "t", "u", "r", "n">>}

TailLexemes == {<<"(">>, <<")">>, <<"=">>, <<";">>, <<"1">>, <<"+">>, <<",">>}

StmtPrograms ==
  {Spell(<<h>> \o t) : h \in HeadLexemes, t \in SeqsUpTo(TailLexemes, MaxTail)}

BreakStmt == <<<<"b", "r", "e", "a", "k">>, <<";">>>>

BlockLexemes(n) == <<<<"{">>>> \o Rep(BreakStmt, n) \o <<<<"}">>>>

ElifLexemes(n) ==
  <<<<"e", "l", "i", "f">>, <<"(">>, <<"f", "a", "l", "s", "e">>, <<")">>>> \o
  BlockLexemes(n)

IfLexemes(nthen, elifs, els) ==
  <<<<"i", "f">>, <<"(">>, <<"t", "r", "u", "e">>, <<")">>>> \o BlockLexemes(nthen) \o
  Flatten([i \in 1..Len(elifs) |-> ElifLexemes(elifs[i])]) \o
  (IF els < 0 THEN <<>> ELSE <<<<"e", "l", "s", "e">>>> \o BlockLexemes(els))

IfPrograms ==
  {Spell(IfLexemes(nthen, elifs, els)) :
     nthen \in 0..MaxStmts, elifs \in SeqsUpTo(0..MaxStmts, MaxElifs),
     els \in -1..MaxStmts}

LetTailLexemes == {<<"x">>, <<"1">>, <<"=">>, <<";">>}

LetPrograms ==
  {Spell(<<<<"l", "e", "t">>>> \o t) : t \in SeqsUpTo(LetTailLexemes, MaxLet)}

LetStmt == <<<<"l", "e", "t">>, <<"x">>, <<"=">>, <<"1">>, <<";">>>>

FnLexemes(n, closed) ==
  <<<<"f", "n">>, <<"f">>, <<"(">>, <<")">>, <<"{">>>> \o Rep(LetStmt, n) \o
  (IF closed THEN <<<<"}">>>> ELSE <<>>)

FnPrograms == {Spell(FnLexemes(n, closed)) : n \in 0..MaxStmts, closed \in BOOLEAN}

TruncPrograms ==
  {Spell(Rep(<<<<"1">>, <<";">>>>, n) \o <<<<"\"", "\\">>>>) : n \in 0..MaxStmts}

Ex_precedence ==
  <<"1", " ", "+", " ", "2", " ", "*", " ", "3", ";">>

Ex_left_assoc ==
  <<"8", " ", "-", " ", "3", " ", "-", " ", "2", ";">>

Ex_call ==
  <<"f", "(", ")", ";">>

Ex_reference ==
  <<"f", ";">>

Ex_unterminated ==
  <<"f", "n", " ", "f", "(", ")", " ", "{", " ", "l", "e", "t",
    " ", "x", " ", "=", " ", "1", ";">>

Ex_branch ==
  <<"i", "f", " ", "(", "t", "r", "u", "e", ")", " ", "{", " ",
    "b", "r", "e", "a", "k", ";", " ", "}", " ", "e", "l", "i",
    "f", " ", "(", "f", "a", "l", "s", "e", ")", " ", "{", " ",
    "b", "r", "e", "a", "k", ";", " ", "}", " ", "e", "l", "s",
    "e", " ", "{", " ", "b", "r", "e", "a", "k", ";", " ", "}">>

Ex_return ==
  <<"r", "e", "t", "u", "r", "n", " ", "1", " ", "+", " ", ";">>

Ex_malformed ==
  <<"1", ".", "2", ".", "3", ";">>

Ex_comment ==
  <<"1", " ", "+", " ", "#", " ", "c", "o", "m", "m", "e", "n",
    "t", "\n", " ", "2", ";">>

Ex_newline ==
  <<"1", " ", "+", "\n", "2", ";">>

Ex_nested_call ==
  <<"f", "(", "g", "(", "a", ")", ",", " ", "b", ")", ";">>

Ex_paren ==
  <<"(", "1", ")", ";">>

Ex_let_number ==
  <<"l", "e", "t", " ", "5", " ", "5", " ", "3", ";">>

Ex_let_no_equals ==
  <<"l", "e", "t", " ", "x", " ", "y", " ", "1", ";">>

Ex_import ==
  <<"i", "m", "p", "o", "r", "t", " ", "\"", "m", "\"">>

Ex_import_num ==
  <<"i", "m", "p", "o", "r", "t", " ", "1", ";">>

ExamplePrograms == {Ex_precedence, Ex_left_assoc, Ex_call, Ex_reference,
                    Ex_unterminated, Ex_branch, Ex_return, Ex_import,
                    Ex_import_num, Ex_malformed, Ex_comment, Ex_newline,
                    Ex_nested_call, Ex_paren, Ex_let_number,
                    Ex_let_no_equals}

Buffers ==
  RawBuffers \cup StrBuffers \cup ExprPrograms \cup StmtPrograms \cup IfPrograms
    \cup FnPrograms \cup TruncPrograms \cup LetPrograms \cup ExamplePrograms

(***************************************************************************)
(* main.rs 7-72: the driver.  pc is the place of main.                     *)
(***************************************************************************)
Init ==
  /\ file_buffer \in Buffers
  /\ pos = 0
  /\ line_number = 0
  /\ tokens = <<>>
  /\ lex_failed = FALSE
  /\ last_lex = [called |-> FALSE, at |-> 0, ret |-> None]
  /\ parser = Parser_new(<<>>)
  /\ results = <<>>
  /\ pc = "first_lex"

(* main.rs 21-27: one call of lex whose token is dropped; the cursor is    *)
(* set back to 0, the line counter is not.                                 *)
FirstLex ==
  /\ pc = "first_lex"
  /\ line_number' = lex(file_buffer, pos, line_number).line
  /\ pos' = 0
  /\ tokens' = <<>>
  /\ pc' = "lex_loop"
  /\ UNCHANGED <<file_buffer, lex_failed, last_lex, parser, results>>

(* The lexing loop with the end-of-file token dropped instead of pushed.    *)
LexLoop_drop_eof ==
  /\ pc = "lex_loop"
  /\ LET r == lex(file_buffer, pos, line_number) IN
       /\ pos' = r.pos
       /\ line_number' = r.line
       /\ last_lex' = [called |-> TRUE, at |-> pos, ret |-> r.tok]
       /\ IF r.tok.some
            THEN /\ tokens' = IF r.tok.val.ttype = "Eof" THEN tokens
                                ELSE Append(tokens, r.tok.val)
                 /\ pc' = IF r.tok.val.ttype = "Eof" THEN "parser_new" ELSE "lex_loop"
                 /\ UNCHANGED lex_failed
            ELSE /\ lex_failed' = TRUE
                 /\ pc' = "parser_new"
                 /\ UNCHANGED tokens
  /\ UNCHANGED <<file_buffer, parser, results>>

(* main.rs 28-43: one iteration of the lexing loop *)
LexLoop ==
  /\ pc = "lex_loop"
  /\ LET r == lex(file_buffer, pos, line_number) IN
       /\ pos' = r.pos
       /\ line_number' = r.line
       /\ last_lex' = [called |-> TRUE, at |-> pos, ret |-> r.tok]
       /\ IF r.tok.some
            THEN /\ tokens' = Append(tokens, r.tok.val)
                 /\ pc' = IF r.tok.val.ttype = "Eof" THEN "parser_new" ELSE "lex_loop"
                 /\ UNCHANGED lex_failed
            ELSE /\ lex_failed' = TRUE
                 /\ pc' = "parser_new"
                 /\ UNCHANGED tokens
  /\ UNCHANGED <<file_buffer, parser, results>>

(* main.rs 45: Parser::new(tokens) *)
ParserNew ==
  /\ pc = "parser_new"
  /\ parser' = Parser_new(tokens)
  /\ pc' = "parse_loop"
  /\ UNCHANGED <<file_buffer, pos, line_number, tokens, lex_failed, last_lex, results>>

(* main.rs 49-69: one iteration of the parsing loop *)
ParseLoop ==
  /\ pc = "parse_loop"
  /\ ~is_at_end(parser)
  /\ LET r == parse_statement(parser) IN
       /\ parser' = r.self
       /\ results' = IF r.res.ok = "Diverge" THEN results ELSE Append(results, r.res)
       /\ pc' = CASE r.res.ok = "Ok" -> "parse_loop"
                  [] r.res.ok = "Err" -> "done"
                  [] OTHER -> "hung"
  /\ UNCHANGED <<file_buffer, pos, line_number, tokens, lex_failed, last_lex>>

(* main.rs 49, 71: the loop ends at the end of the tokens; return Ok(()) *)
MainReturn ==
  /\ pc = "parse_loop"
  /\ is_at_end(parser)
  /\ pc' = "done"
  /\ UNCHANGED <<file_buffer, pos, line_number, tokens, lex_failed, last_lex,
                 parser, results>>

Next == FirstLex \/ LexLoop \/ ParserNew \/ ParseLoop \/ MainReturn

Spec == Init /\ [][Next]_vars

(***************************************************************************)
(* Properties.                                                             *)
(***************************************************************************)
Lexed == pc \in {"parser_new", "parse_loop", "done", "hung"}

(* the driver has called parse_statement on the first statement *)
Parsed == Len(results) >= 1 \/ pc = "hung"

EofCount == Cardinality({i \in 1..Len(tokens) : tokens[i].ttype = "Eof"})

(* C1: when the lexing loop has ended and no call of lex failed, the token  *)
(* sequence is non-empty, its last element is the end-of-file token and it *)
(* holds the end-of-file token exactly once.                               *)
C1_TokensEndInOneEof ==
  (Lexed /\ ~lex_failed) =>
     /\ Len(tokens) > 0
     /\ tokens[Len(tokens)].ttype = "Eof"
     /\ EofCount = 1

C1_Witness ==
  /\ Lexed /\ ~lex_failed
  /\ Len(tokens) >= 4
  /\ tokens[Len(tokens)].ttype = "Eof"

(***************************************************************************)
(* Expression statements: operand (operator operand)* `;` end-of-file.     *)
(***************************************************************************)
OperandTypes == {"Num", "Str", "True", "False"}

(* the precedence levels of section 4.3, the tightest highest *)
LevelOf(op) ==
  CASE op \in {<<"*">>, <<"/">>, <<"%">>} -> 4
    [] op \in {<<"+">>, <<"-">>} -> 3
    [] op \in {<<"=", "=">>, <<"<">>, <<"<", "=">>, <<">">>, <<">", "=">>} -> 2
    [] op \in {<<"a", "n", "d">>, <<"o", "r">>} -> 1
    [] OTHER -> 0

ExprBody == SubSeq(tokens, 1, Len(tokens) - 2)

OpCount == (Len(tokens) - 3) \div 2

IsExprStmt ==
  /\ Lexed
  /\ Len(tokens) >= 3 /\ Len(tokens) % 2 = 1
  /\ tokens[Len(tokens)].ttype = "Eof"
  /\ tokens[Len(tokens) - 1].ttype = "Scln"
  /\ \A i \in 1..(Len(tokens) - 2) :
       IF i % 2 = 1 THEN tokens[i].ttype \in OperandTypes
       ELSE LevelOf(tokens[i].value) > 0

LeafOf(tok) ==
  CASE tok.ttype = "Num" -> Number(parse_f64(tok.value))
    [] tok.ttype = "Str" -> StrLiteral(tok.value)
    [] tok.ttype = "True" -> BoolNode(TRUE)
    [] OTHER -> BoolNode(FALSE)

(* the leaves and operators of a tree from left to right, each operator    *)
(* with its depth in the tree                                              *)
RECURSIVE InOrder(_, _)
InOrder(n, depth) ==
  IF n.node = "BinOpNode"
    THEN InOrder(n.left, depth + 1) \o <<[op |-> n.op, depth |-> depth]>> \o
         InOrder(n.right, depth + 1)
    ELSE <<[leaf |-> n]>>

(* the tree reads, from left to right, as the statement was written *)
ReadsAs(n) ==
  LET io == InOrder(n, 0) IN
  /\ Len(io) = Len(tokens) - 2
  /\ \A i \in 1..Len(io) :
       IF i % 2 = 1 THEN io[i] = [leaf |-> LeafOf(tokens[i])]
       ELSE io[i].op = tokens[i].value

(* of two operators next to each other in the statement one is an ancestor *)
(* of the other in the tree: the deeper one is the descendant              *)
TighterIsDeeper(n) ==
  LET io == InOrder(n, 0) IN
  \A k \in 1..(OpCount - 1) :
    LET a == io[2 * k]
        b == io[2 * k + 2] IN
    /\ LevelOf(a.op) > LevelOf(b.op) => a.depth > b.depth
    /\ LevelOf(a.op) < LevelOf(b.op) => a.depth < b.depth

Num1(d) == Number([int |-> d, frac |-> <<>>])

(* C2: a terminated expression statement of literals and binary operators  *)
(* parses to a tree that reads as the statement and in which, of two       *)
(* adjacent operators of different levels, the tighter one is the          *)
(* descendant; `1 + 2 * 3;` parses to +(1, *(2, 3)).                       *)
C2_Precedence ==
  /\ (IsExprStmt /\ Parsed) =>
       /\ results[1].ok = "Ok"
       /\ ReadsAs(results[1].node)
       /\ TighterIsDeeper(results[1].node)
  /\ (file_buffer = Ex_precedence /\ Parsed) =>
       results[1] = Ok(BinOpNode(<<"+">>, Num1(1), BinOpNode(<<"*">>, Num1(2), Num1(3))))

C2_Witness ==
  /\ IsExprStmt /\ Parsed
  /\ OpCount = 3
  /\ LevelOf(tokens[2].value) = 3
  /\ LevelOf(tokens[4].value) = 4
  /\ LevelOf(tokens[6].value) = 1
  /\ results[1].ok = "Ok"

RECURSIVE LeftChain(_, _)
LeftChain(body, k) ==
  IF k = 0 THEN LeafOf(body[1])
  ELSE BinOpNode(body[2 * k].value, LeftChain(body, k - 1), LeafOf(body[2 * k + 1]))

SameLevel ==
  \A i, j \in 1..OpCount : LevelOf(tokens[2 * i].value) = LevelOf(tokens[2 * j].value)

(* C3: a chain of operators of one precedence level parses to the          *)
(* left-nested chain of BinOpNodes; `8 - 3 - 2;` parses to -(-(8, 3), 2).  *)
C3_LeftAssociative ==
  /\ (IsExprStmt /\ SameLevel /\ Parsed) =>
       results[1] = Ok(LeftChain(ExprBody, OpCount))
  /\ (file_buffer = Ex_left_assoc /\ Parsed) =>
       results[1] = Ok(BinOpNode(<<"-">>, BinOpNode(<<"-">>, Num1(8), Num1(3)), Num1(2)))

C3_Witness ==
  /\ IsExprStmt /\ SameLevel /\ Parsed
  /\ OpCount = 3
  /\ tokens[2].value # tokens[4].value
  /\ results[1] = Ok(LeftChain(ExprBody, OpCount))

(***************************************************************************)
(* Blocks and branches.                                                    *)
(***************************************************************************)
Breaks(n) == [i \in 1..n |-> BreakNode]

IfExpected(nthen, elifs, els) ==
  IfElseNode(BoolNode(TRUE), Breaks(nthen),
             [i \in 1..Len(elifs) |-> <<BoolNode(FALSE), Breaks(elifs[i])>>],
             IF els < 0 THEN None ELSE Some(Breaks(els)))

(* C4: an if statement with any number of elif clauses and an optional     *)
(* else, whose blocks hold statements, parses to one IfElseNode with the   *)
(* statements of each block in order; the example of section 8 gives one   *)
(* then statement, one elif pair and a present else branch.                *)
C4_BranchStructure ==
  /\ \A nthen \in 0..MaxStmts, elifs \in SeqsUpTo(0..MaxStmts, MaxElifs),
        els \in -1..MaxStmts :
       (file_buffer = Spell(IfLexemes(nthen, elifs, els)) /\ Parsed) =>
          results[1] = Ok(IfExpected(nthen, elifs, els))
  /\ (file_buffer = Ex_branch /\ Parsed) => results[1] = Ok(IfExpected(1, <<1>>, 1))

IsOpenFn ==
  \/ file_buffer = Ex_unterminated
  \/ \E n \in 0..MaxStmts : file_buffer = Spell(FnLexemes(n, FALSE))

(* the token after the `{` of `fn f ( ) {` *)
FirstInBlock == tokens[6]

(* C5: a block opened with `{` and not closed before the end of input, as  *)
(* in `fn f() { let x = 1;`, makes parse_statement return                  *)
(* UnterminatedBlock with the line of the block's first statement attempt. *)
C5_UnterminatedBlock ==
  (IsOpenFn /\ Lexed /\ (pc \in {"done", "hung"} \/ Len(results) >= 1)) =>
     /\ Len(results) >= 1
     /\ results[1] = Err(UnterminatedBlock(FirstInBlock.line_num))

(***************************************************************************)
(* Lexical failures.                                                       *)
(***************************************************************************)
(* the first place at or after p that is neither in a comment nor blank *)
RECURSIVE Significant(_, _)
Significant(chars, p) ==
  IF p >= Len(chars) THEN p
  ELSE IF Ch(chars, p) = "#" THEN Significant(chars, skip_comment(chars, p))
  ELSE IF Ch(chars, p) \in Whitespace THEN Significant(chars, p + 1)
  ELSE p

StartsToken(c) ==
  c \in DOMAIN SingleType \cup DOMAIN DoubleType \cup Digits \cup Alpha \cup {"\"", "_"}

LastStart == Significant(file_buffer, last_lex.at)

(* C6: a lex call that, past comments and blanks, stands on a character    *)
(* that starts no token returns a lexical failure.                         *)
C6_UnknownCharFails ==
  (last_lex.called /\ LastStart < Len(file_buffer)
     /\ ~StartsToken(Ch(file_buffer, LastStart))) =>
       (~last_lex.ret.some /\ lex_failed)

(* the string opened before p is closed in the buffer and holds no escape  *)
(* other than \", \n and \\                                                *)
RECURSIVE Closes(_, _)
Closes(chars, p) ==
  IF p >= Len(chars) THEN FALSE
  ELSE IF Ch(chars, p) = "\"" THEN TRUE
  ELSE IF Ch(chars, p) = "\\"
    THEN p + 1 < Len(chars) /\ Ch(chars, p + 1) \in {"\"", "n", "\\"}
         /\ Closes(chars, p + 2)
    ELSE Closes(chars, p + 1)

(* C7: a lex call that starts on `"` returns a string token if and only if *)
(* the string is closed and its escapes are \", \n or \; otherwise it     *)
(* returns a lexical failure.                                              *)
C7_StringLiteral ==
  (last_lex.called /\ LastStart < Len(file_buffer)
     /\ Ch(file_buffer, LastStart) = "\"") =>
       IF Closes(file_buffer, LastStart + 1)
         THEN last_lex.ret.some /\ last_lex.ret.val.ttype = "Str"
         ELSE ~last_lex.ret.some

(* C8: when lexing stopped on a failure and the parser reaches the end of  *)
(* the tokens, the driver ends with an "unexpected end of input" failure.  *)
C8_TruncatedStream ==
  (pc = "done" /\ lex_failed /\ parser.pos >= Len(tokens)) =>
     /\ Len(results) >= 1
     /\ results[Len(results)] = EndOfInput

(***************************************************************************)
(* Statements.                                                             *)
(***************************************************************************)
FirstIs(ttype) == Lexed /\ Len(tokens) >= 1 /\ tokens[1].ttype = ttype

SecondIs(ttype) == Len(tokens) >= 2 /\ tokens[2].ttype = ttype

ReturnExpr == parse_expr(consume(Parser_new(tokens)), TRUE)

CallExpr == parse_func_call(Parser_new(tokens))

(* C9: when a sub-parse of a statement fails, parse_statement fails with   *)
(* that first failure: the expression of `return` once it has consumed     *)
(* tokens, and the argument list of a call statement.                      *)
C9_EagerFailure ==
  /\ (FirstIs("Return") /\ Len(results) >= 1
        /\ ReturnExpr.res.ok = "Err" /\ ReturnExpr.self.pos > 1) =>
       results[1] = ReturnExpr.res
  /\ (FirstIs("Iden") /\ SecondIs("Opt") /\ Len(results) >= 1
        /\ CallExpr.res.ok = "Err") =>
       results[1] = CallExpr.res

(* the tokens i..j are literals separated by commas *)
IsArgList(i, j) ==
  \/ j = i - 1
  \/ /\ (j - i) % 2 = 0
     /\ \A k \in i..j : IF (k - i) % 2 = 0 THEN tokens[k].ttype = "Num"
                        ELSE tokens[k].ttype = "Com"

ArgNodes(i, j) == [k \in 1..((j - i + 2) \div 2) |-> LeafOf(tokens[i + 2 * (k - 1)])]

(* name ( literal, ... ) ; *)
IsCallStmt(j) ==
  /\ SecondIs("Opt") /\ j + 2 <= Len(tokens)
  /\ IsArgList(3, j)
  /\ tokens[j + 1].ttype = "Cpt" /\ tokens[j + 2].ttype = "Scln"

(* name = literal ; *)
IsAssignStmt ==
  /\ SecondIs("Equ") /\ Len(tokens) >= 4
  /\ tokens[3].ttype = "Num" /\ tokens[4].ttype = "Scln"

(* C10: a statement that starts with an identifier is a call when `(`      *)
(* follows the name, an assignment when `=` follows it, and an             *)
(* UnexpectedToken failure otherwise; `f();` is a call without arguments   *)
(* and `f;` is an UnexpectedToken failure.                                 *)
C10_CallOrAssign ==
  /\ (FirstIs("Iden") /\ Len(results) >= 1) =>
       /\ \A j \in 2..Len(tokens) :
            IsCallStmt(j) => results[1] = Ok(FuncCall(tokens[1].value, ArgNodes(3, j)))
       /\ IsAssignStmt =>
            results[1] = Ok(AssignNode(tokens[1].value, LeafOf(tokens[3])))
       /\ (SecondIs("Opt") /\ results[1].ok = "Ok") =>
            (results[1].node.node = "FuncCall" /\ results[1].node.name = tokens[1].value)
       /\ (SecondIs("Equ") /\ results[1].ok = "Ok") =>
            (results[1].node.node = "AssignNode" /\ results[1].node.name = tokens[1].value)
       /\ (~SecondIs("Opt") /\ ~SecondIs("Equ")) =>
            (results[1].ok = "Err" /\ results[1].err.kind = "UnexpectedToken")
  /\ (file_buffer = Ex_call /\ Parsed) => results[1] = Ok(FuncCall(<<"f">>, <<>>))
  /\ (file_buffer = Ex_reference /\ Parsed) =>
       results[1] = Err(UnexpectedToken(TokText(<<";">>), tokens[2].line_num))

C10_Witness ==
  /\ FirstIs("Iden") /\ Len(results) >= 1
  /\ IsCallStmt(2)
  /\ results[1] = Ok(FuncCall(tokens[1].value, <<>>))

FirstWordIsImport ==
  Lexed /\ Len(tokens) >= 1 /\ tokens[1].value = <<"i", "m", "p", "o", "r", "t">>

(* C11: the word `import` is lexed as the import keyword; `import "m"`      *)
(* parses to ImportNode("m"), and `import` followed by anything other than *)
(* a string literal is a failure.                                          *)
C11_Import ==
  /\ FirstWordIsImport => tokens[1].ttype = "Import"
  /\ (file_buffer = Ex_import /\ Parsed) => results[1] = Ok(ImportNode(<<"m">>))
  /\ (FirstWordIsImport /\ Len(results) >= 1 /\ ~SecondIs("Str")) =>
       results[1].ok = "Err"

(***************************************************************************)
(* Numeric literals.                                                       *)
(***************************************************************************)
(* the end of the maximal run of digits and dots that starts at p *)
RECURSIVE RunEnd(_, _)
RunEnd(chars, p) ==
  IF p < Len(chars) /\ (Ch(chars, p) \in Digits \/ Ch(chars, p) = ".")
    THEN RunEnd(chars, p + 1)
    ELSE p

Dots(run) == Cardinality({i \in 1..Len(run) : run[i] = "."})

LastRun == SubSeq(file_buffer, LastStart + 1, RunEnd(file_buffer, LastStart))

OnNumber ==
  /\ last_lex.called /\ LastStart < Len(file_buffer)
  /\ Ch(file_buffer, LastStart) \in Digits

(* C12: a lex call that stands on a run of digits and dots returns the     *)
(* number token of the run when the run holds at most one `.`, and a       *)
(* lexical failure, with no token appended, when it holds a second `.`;    *)
(* `1.2.3;` gives a failure and no token.                                  *)
C12_MalformedNumber ==
  /\ OnNumber =>
       IF Dots(LastRun) >= 2
         THEN ~last_lex.ret.some /\ lex_failed
         ELSE /\ last_lex.ret.some
              /\ last_lex.ret.val.ttype = "Num"
              /\ last_lex.ret.val.value = LastRun
  /\ (last_lex.called /\ last_lex.ret.some /\ last_lex.ret.val.ttype = "Num") =>
       Dots(last_lex.ret.val.value) <= 1
  /\ (file_buffer = Ex_malformed /\ Lexed) => (lex_failed /\ tokens = <<>>)

C12_Witness ==
  /\ file_buffer = Ex_malformed
  /\ OnNumber /\ Dots(LastRun) = 2
  /\ ~last_lex.ret.some /\ lex_failed /\ tokens = <<>>

(***************************************************************************)
(* Comments and blanks between tokens.                                     *)
(***************************************************************************)
(* main.rs 28-43: the tokens the lexing loop collects from a buffer *)
RECURSIVE Tokenize(_, _, _, _)
Tokenize(chars, p, line, out) ==
  Let(lex(chars, p, line), LAMBDA r :
    IF ~r.tok.some THEN out
    ELSE IF r.tok.val.ttype = "Eof" THEN Append(out, r.tok.val)
    ELSE Tokenize(chars, r.pos, r.line, Append(out, r.tok.val)))

(* main.rs 49-69: the results the parsing loop produces *)
RECURSIVE RunParser(_, _)
RunParser(self, out) ==
  IF is_at_end(self) THEN out
  ELSE Let(parse_statement(self), LAMBDA r :
         IF r.res.ok = "Ok" THEN RunParser(r.self, Append(out, r.res))
         ELSE Append(out, r.res))

TokensOf(chars) == Tokenize(chars, 0, 0, <<>>)

(* kinds and texts of a token sequence *)
Kinds(toks) == [i \in 1..Len(toks) |-> <<toks[i].ttype, toks[i].value>>]

(* the results of a run with the lines of the failures left out *)
Outcome(rs) ==
  [i \in 1..Len(rs) |->
     IF rs[i].ok = "Err" THEN [rs[i] EXCEPT !.err.line = 0] ELSE rs[i]]

ParseOf(toks) == Outcome(RunParser(Parser_new(toks), <<>>))

AstOf(chars) == ParseOf(TokensOf(chars))

InsertAt(chars, p, filler) ==
  SubSeq(chars, 1, p) \o filler \o SubSeq(chars, p + 1, Len(chars))

(* the lexer stands between two tokens, or before the first one *)
AtGap == pc = "lex_loop" /\ pos <= Len(file_buffer)

(* a blank, a newline, a comment with its newline, and a comment put       *)
(* before a newline of the buffer or at its end                            *)
Fillers ==
  {<<" ">>, <<"\n">>, <<" ", "#", ";", "\n">>} \cup
  (IF pos = Len(file_buffer) \/ (pos < Len(file_buffer) /\ Ch(file_buffer, pos) = "\n")
     THEN {<<"#", "1", " ">>} ELSE {})

(* the tokens and the parse of the buffer with f put at the cursor are     *)
(* those of the buffer                                                     *)
SameWith(f, toks, ast) ==
  LET t == TokensOf(InsertAt(file_buffer, pos, f)) IN
  /\ Kinds(t) = Kinds(toks)
  /\ ParseOf(t) = ast

(* C13: a `#` comment or blanks put between two tokens change neither the  *)
(* kinds and texts of the tokens nor the parse; `1 + # comment\n 2;` and   *)
(* `1 +\n2;` parse to the same tree.                                       *)
C13_Transparency ==
  /\ AtGap =>
       LET toks == TokensOf(file_buffer) IN
       LET ast == ParseOf(toks) IN
       \A f \in Fillers : SameWith(f, toks, ast)
  /\ (file_buffer \in {Ex_comment, Ex_newline} /\ pc = "done") =>
       /\ Kinds(tokens) = Kinds(TokensOf(Ex_newline))
       /\ results = <<Ok(BinOpNode(<<"+">>, Num1(1), Num1(2)))>>

C13_Witness ==
  /\ file_buffer = Ex_newline /\ AtGap /\ Len(tokens) = 2
  /\ InsertAt(InsertAt(file_buffer, pos + 1, <<" ">>), pos,
              <<" ", "#", " ", "c", "o", "m", "m", "e", "n", "t">>) = Ex_comment
  /\ Kinds(TokensOf(Ex_comment)) = Kinds(TokensOf(file_buffer))
  /\ AstOf(Ex_comment) = AstOf(file_buffer)

(***************************************************************************)
(* Termination.                                                            *)
(***************************************************************************)
(* C14: on a token sequence that ends with the end-of-file token every     *)
(* call of parse_statement returns, with a node or a failure; a block that *)
(* meets the end-of-file token before `}` does not loop for ever.          *)
C14_Termination ==
  (Lexed /\ ~lex_failed) =>
     /\ pc # "hung"
     /\ \A i \in 1..Len(results) : results[i].ok \in {"Ok", "Err"}

(***************************************************************************)
(* The cursor.                                                             *)
(***************************************************************************)
(* C15: the cursor index of the parser is never above the length of the    *)
(* token sequence: consume at the index equal to the length leaves the     *)
(* index as it is.                                                         *)
C15_ConsumePastEnd ==
  /\ parser.pos <= Len(parser.tokens)
  /\ parser.high <= Len(parser.tokens)

(* C16: puke is never called twice in a row without a consume between,    *)
(* never at index 0, and the cursor is never more than one position below  *)
(* the highest index it has reached.                                       *)
C16_PushbackDiscipline ==
  /\ parser.kept
  /\ parser.pos >= parser.high - 1
  /\ parser.pos >= 0

C16_Witness ==
  /\ file_buffer = Ex_nested_call
  /\ parser.pukes >= 4 /\ parser.kept
  /\ Len(results) >= 1
  /\ parser.pos >= parser.high - 1

(***************************************************************************)
(* The start of an expression.                                             *)
(***************************************************************************)
ExprStarts == {"Iden", "Num", "Str", "True", "False"}

(* the token types parse_statement has a branch of its own for *)
StatementHeads ==
  {"Eof", "Import", "Let", "Func", "If", "Loop", "Break", "Return", "Iden"}

(* the first statement is an expression statement that starts with a token *)
(* no expression starts with                                               *)
BadExprStart ==
  /\ Lexed /\ Len(tokens) >= 1 /\ Len(results) >= 1
  /\ tokens[1].ttype \notin StatementHeads \cup ExprStarts

(* C17: parse_expr on a token that is not an identifier, number, string,   *)
(* `true` or `false` returns UnexpectedToken with the text and the line of *)
(* that token and consumes nothing; so for `(`, an operator, `;` and `}`.  *)
C17_ExpressionStart ==
  BadExprStart =>
     /\ results[1] = Err(UnexpectedToken(TokText(tokens[1].value), tokens[1].line_num))
     /\ parser.high = 0

(***************************************************************************)
(* Variable declarations.                                                  *)
(***************************************************************************)
ThirdIs(ttype) == Len(tokens) >= 3 /\ tokens[3].ttype = ttype

(* C18: a statement that starts with `let` gives a VarDecNode only when a  *)
(* name, `=` and a terminated expression follow; `let 5 5 3;` and          *)
(* `let x y 1;` are failures.                                              *)
C18_LetShape ==
  /\ (FirstIs("Let") /\ Len(results) >= 1) =>
       /\ results[1].ok = "Ok" =>
            /\ results[1].node.node = "VarDecNode"
            /\ SecondIs("Iden") /\ ThirdIs("Equ")
            /\ results[1].node.name = tokens[2].value
       /\ (~SecondIs("Iden") \/ ~ThirdIs("Equ")) => results[1].ok = "Err"
  /\ (file_buffer \in {Ex_let_number, Ex_let_no_equals} /\ Parsed) =>
       results[1].ok = "Err"

====
